---- MODULE Spec2Model ----
(***************************************************************************)
(* NeuroCross, daily neurology crossword: the generation pipeline          *)
(* (seeded RNG, word selector, grid placer, interlock pruner, scorer,      *)
(* orchestrator, clue numberer) and the isSolved check, modelled from      *)
(* src/0830/neuro_cross_daily_neurology_crossword_prototype.jsx.           *)
(*                                                                         *)
(* A 32-bit unsigned integer is a pair <<hi, lo>> of 16-bit halves, so     *)
(* that the wrapping arithmetic of the generator is computed exactly.      *)
(* Rows and columns are 0-based as in the source; sequences are 1-based.   *)
(***************************************************************************)
EXTENDS Integers, Sequences, FiniteSets, TLC

\* ------------------------------------------------------------------ u32
\* a ^ b and a | b on w-bit numbers, w a power of two, by halving
RECURSIVE XorBits(_, _, _)
XorBits(a, b, w) ==
  IF a = b THEN 0
  ELSE IF w = 1 THEN 1
  ELSE LET h == w \div 2
           m == 2 ^ h
       IN  (XorBits(a \div m, b \div m, h) * m) + XorBits(a % m, b % m, h)

RECURSIVE OrBits(_, _, _)
OrBits(a, b, w) ==
  IF a = b THEN a
  ELSE IF w = 1 THEN 1
  ELSE LET h == w \div 2
           m == 2 ^ h
       IN  (OrBits(a \div m, b \div m, h) * m) + OrBits(a % m, b % m, h)

Xor16(a, b) == XorBits(a, b, 16)

Or16(a, b) == OrBits(a, b, 16)

\* (x * y) mod 2^16 for 16-bit x, y, by bytes
MulLo16(x, y) ==
  ((((x \div 256) * (y % 256)) + ((x % 256) * (y \div 256))) * 256
     + ((x % 256) * (y % 256))) % 65536

\* value >>> 0 for a non-negative integer
ToU32(n) == << (n \div 65536) % 65536, n % 65536 >>

Xor32(a, b) == << Xor16(a[1], b[1]), Xor16(a[2], b[2]) >>

Or32(a, b) == << Or16(a[1], b[1]), Or16(a[2], b[2]) >>

Pow2(k) == 2 ^ k

\* a >>> k, 0 < k < 16
Shr32(a, k) ==
  << a[1] \div Pow2(k), ((a[1] % Pow2(k)) * Pow2(16 - k)) + (a[2] \div Pow2(k)) >>

\* (a + b) mod 2^32
Add32(a, b) ==
  << (a[1] + b[1] + ((a[2] + b[2]) \div 65536)) % 65536, (a[2] + b[2]) % 65536 >>

\* Math.imul(a, b): the low 32 bits of the product
Imul(a, b) ==
  LET a1 == a[2] \div 256
      a0 == a[2] % 256
      b1 == b[2] \div 256
      b0 == b[2] % 256
      low == ((a1 * b0) + (a0 * b1)) * 256 + (a0 * b0)
      carry == (a1 * b1) + (low \div 65536)
  IN  << (carry + MulLo16(a[1], b[2]) + MulLo16(a[2], b[1])) % 65536, low % 65536 >>

\* ------------------------------------------------------- seeded RNG
\* the generator's state after k calls: each call does t += 0x6d2b79f5
AdvanceBy(t, k) == Add32(t, Imul(ToU32(k), << 27947, 31221 >>))

RngAdvance(t) == AdvanceBy(t, 1)

\* Math.imul(t ^ (t >>> 15), 1 | t)
MixFirst(t) == Imul(Xor32(t, Shr32(t, 15)), Or32(<< 0, 1 >>, t))

\* r ^= r + Math.imul(r ^ (r >>> 7), 61 | r)
MixSecond(r) == Xor32(r, Add32(r, Imul(Xor32(r, Shr32(r, 7)), Or32(<< 0, 61 >>, r))))

\* (r ^ (r >>> 14)) >>> 0
MixLast(r) == Xor32(r, Shr32(r, 14))

\* the 32-bit numerator of the float one call returns, from the advanced state
RngOutput(t) == MixLast(MixSecond(MixFirst(t)))

mulberry32(seed) == ToU32(seed)

\* Math.floor(rng() * n), with u the numerator of rng() over 2^32
FloorMul(u, n) == ((u[1] * n) + ((u[2] * n) \div 65536)) \div 65536

Swap(arr, i, j) == [arr EXCEPT ![i] = arr[j], ![j] = arr[i]]

\* the calls of the generator a shuffle of n entries makes
shuffleCalls(n) == IF n > 1 THEN n - 1 ELSE 0

\* the j drawn for index i (1-based) of an array of n entries: the loop
\* runs i from n down to 2, one call of the generator each
DrawnIndex(t, n, i) == FloorMul(RngOutput(AdvanceBy(t, n - i + 1)), i) + 1

\* the j drawn at every index, in the order the loop draws them (index 1
\* is not visited)
drawnIndices(t, n) == [i \in 1..n |-> IF i = 1 THEN 1 ELSE DrawnIndex(t, n, i)]

\* the swaps of the indices hi down to lo, in that order; fewer than two
\* entries leave nothing to swap
RECURSIVE SwapsFrom(_, _, _, _)
SwapsFrom(arr, drawn, hi, lo) ==
  IF Len(arr) < 2 \/ Len(drawn) < 2 \/ hi < lo THEN arr
  ELSE IF hi = lo THEN Swap(arr, hi, drawn[hi])
  ELSE SwapsFrom(SwapsFrom(arr, drawn, hi, ((hi + lo) \div 2) + 1), drawn, (hi + lo) \div 2, lo)

\* yields the array and the generator's state afterwards
shuffleInPlace(arr, t) ==
  [t |-> AdvanceBy(t, shuffleCalls(Len(arr))),
   arr |-> SwapsFrom(arr, drawnIndices(t, Len(arr)), Len(arr), 2)]


\* ------------------------------------------------------- words and clues
\* an answer is the sequence of its letters
BANK ==
  << [answer |-> << "A", "P", "H", "A", "S", "I", "A" >>, clue |-> "Language impairment from dominant hemisphere lesion"],
     [answer |-> << "B", "R", "O", "C", "A" >>, clue |-> "Inferior frontal language area for speech production"],
     [answer |-> << "W", "E", "R", "N", "I", "C", "K", "E" >>, clue |-> "Posterior temporal language area for comprehension"],
     [answer |-> << "B", "A", "B", "I", "N", "S", "K", "I" >>, clue |-> "Upgoing plantar response"],
     [answer |-> << "A", "T", "A", "X", "I", "A" >>, clue |-> "Incoordination typically from cerebellar dysfunction"],
     [answer |-> << "C", "E", "R", "E", "B", "E", "L", "L", "U", "M" >>, clue |-> "Coordination and balance center"],
     [answer |-> << "T", "H", "A", "L", "A", "M", "U", "S" >>, clue |-> "Major relay for sensory pathways to cortex"],
     [answer |-> << "P", "A", "R", "K", "I", "N", "S", "O", "N" >>, clue |-> "Bradykinesia, rigidity, rest tremor"],
     [answer |-> << "A", "L", "Z", "H", "E", "I", "M", "E", "R" >>, clue |-> "Most common cause of dementia"],
     [answer |-> << "M", "I", "G", "R", "A", "I", "N", "E" >>, clue |-> "Headache with aura in some patients"],
     [answer |-> << "S", "E", "I", "Z", "U", "R", "E" >>, clue |-> "Paroxysmal abnormal synchronized neuronal activity"],
     [answer |-> << "E", "P", "I", "L", "E", "P", "S", "Y" >>, clue |-> "Tendency to have unprovoked seizures"],
     [answer |-> << "S", "T", "A", "T", "U", "S" >>, clue |-> "Seizure lasting >5 minutes or repeated without recovery"],
     [answer |-> << "S", "T", "R", "O", "K", "E" >>, clue |-> "Acute neurologic deficit from vascular cause"],
     [answer |-> << "I", "S", "C", "H", "E", "M", "I", "A" >>, clue |-> "Inadequate blood supply to tissue"],
     [answer |-> << "I", "N", "F", "A", "R", "C", "T" >>, clue |-> "Tissue death from ischemia"],
     [answer |-> << "B", "A", "S", "I", "L", "A", "R" >>, clue |-> "Trunk artery supplying brainstem and cerebellum"],
     [answer |-> << "P", "O", "N", "S" >>, clue |-> "Brainstem segment between midbrain and medulla"],
     [answer |-> << "M", "E", "D", "U", "L", "L", "A" >>, clue |-> "Houses nuclei for autonomic functions and cranial nerves"],
     [answer |-> << "O", "P", "T", "I", "C" >>, clue |-> "Nerve conveying visual information"],
     [answer |-> << "T", "R", "I", "G", "E", "M", "I", "N", "A", "L" >>, clue |-> "Cranial nerve for facial sensation"],
     [answer |-> << "V", "A", "G", "U", "S" >>, clue |-> "Cranial nerve X with parasympathetic output"],
     [answer |-> << "M", "I", "D", "B", "R", "A", "I", "N" >>, clue |-> "Contains superior and inferior colliculi"],
     [answer |-> << "C", "A", "R", "O", "T", "I", "D" >>, clue |-> "Artery commonly involved in anterior circulation stroke"],
     [answer |-> << "V", "E", "N", "T", "R", "I", "C", "L", "E" >>, clue |-> "CSF-filled brain cavity"],
     [answer |-> << "M", "E", "N", "I", "N", "G", "E", "S" >>, clue |-> "Dura, arachnoid, and pia"],
     [answer |-> << "M", "Y", "E", "L", "I", "N" >>, clue |-> "Insulating sheath around axons"],
     [answer |-> << "A", "X", "O", "N" >>, clue |-> "Neuronal process conducting action potentials"],
     [answer |-> << "D", "E", "N", "D", "R", "I", "T", "E" >>, clue |-> "Branching neuronal input structure"],
     [answer |-> << "S", "Y", "N", "A", "P", "S", "E" >>, clue |-> "Junction between neurons"] >>

BANK_LIMITED == SubSeq(BANK, 1, IF Len(BANK) < 30 THEN Len(BANK) ELSE 30)

\* a null grid cell
NULL == "null"

\* a null entry of the numbering matrix, a placement's number not yet set
\* (the numbers given start at 1)
NoNumber == 0

DIRS == [ACROSS |-> "across", DOWN |-> "down"]

\* ------------------------------------------------------------ the grid
\* grid[r + 1][c + 1] is the source's grid[r][c]
makeEmptyGrid(size) == [r \in 1..size |-> [c \in 1..size |-> NULL]]

GridAt(grid, r, c) == grid[r + 1][c + 1]

\* mutant of canPlace: the neighbours beside an empty cell are not looked at
canPlaceNoSideCheck(word, row, col, dir, grid) ==
  LET size == Len(grid)
      len == Len(word)
  IN  IF dir = DIRS.ACROSS
      THEN /\ ~(col < 0 \/ col + len > size \/ row < 0 \/ row >= size)
           /\ ~(col - 1 >= 0 /\ GridAt(grid, row, col - 1) # NULL)
           /\ ~(col + len < size /\ GridAt(grid, row, col + len) # NULL)
           /\ \A i \in 0..(len - 1) :
                LET cell == GridAt(grid, row, col + i)
                IN  ~(cell # NULL /\ cell # word[i + 1])
      ELSE /\ ~(row < 0 \/ row + len > size \/ col < 0 \/ col >= size)
           /\ ~(row - 1 >= 0 /\ GridAt(grid, row - 1, col) # NULL)
           /\ ~(row + len < size /\ GridAt(grid, row + len, col) # NULL)
           /\ \A i \in 0..(len - 1) :
                LET cell == GridAt(grid, row + i, col)
                IN  ~(cell # NULL /\ cell # word[i + 1])

\* mutant of canPlace: the cell after the word's end is not looked at
canPlaceNoEndCheck(word, row, col, dir, grid) ==
  LET size == Len(grid)
      len == Len(word)
  IN  IF dir = DIRS.ACROSS
      THEN /\ ~(col < 0 \/ col + len > size \/ row < 0 \/ row >= size)
           /\ ~(col - 1 >= 0 /\ GridAt(grid, row, col - 1) # NULL)
           /\ \A i \in 0..(len - 1) :
                LET c == col + i
                    cell == GridAt(grid, row, c)
                IN  /\ ~(cell # NULL /\ cell # word[i + 1])
                    /\ cell = NULL =>
                         /\ ~(row - 1 >= 0 /\ GridAt(grid, row - 1, c) # NULL)
                         /\ ~(row + 1 < size /\ GridAt(grid, row + 1, c) # NULL)
      ELSE /\ ~(row < 0 \/ row + len > size \/ col < 0 \/ col >= size)
           /\ ~(row - 1 >= 0 /\ GridAt(grid, row - 1, col) # NULL)
           /\ \A i \in 0..(len - 1) :
                LET r == row + i
                    cell == GridAt(grid, r, col)
                IN  /\ ~(cell # NULL /\ cell # word[i + 1])
                    /\ cell = NULL =>
                         /\ ~(col - 1 >= 0 /\ GridAt(grid, r, col - 1) # NULL)
                         /\ ~(col + 1 < size /\ GridAt(grid, r, col + 1) # NULL)

canPlace(word, row, col, dir, grid) ==
  LET size == Len(grid)
      len == Len(word)
  IN  IF dir = DIRS.ACROSS
      THEN /\ ~(col < 0 \/ col + len > size \/ row < 0 \/ row >= size)
           /\ ~(col - 1 >= 0 /\ GridAt(grid, row, col - 1) # NULL)
           /\ ~(col + len < size /\ GridAt(grid, row, col + len) # NULL)
           /\ \A i \in 0..(len - 1) :
                LET c == col + i
                    cell == GridAt(grid, row, c)
                IN  /\ ~(cell # NULL /\ cell # word[i + 1])
                    /\ cell = NULL =>
                         /\ ~(row - 1 >= 0 /\ GridAt(grid, row - 1, c) # NULL)
                         /\ ~(row + 1 < size /\ GridAt(grid, row + 1, c) # NULL)
      ELSE /\ ~(row < 0 \/ row + len > size \/ col < 0 \/ col >= size)
           /\ ~(row - 1 >= 0 /\ GridAt(grid, row - 1, col) # NULL)
           /\ ~(row + len < size /\ GridAt(grid, row + len, col) # NULL)
           /\ \A i \in 0..(len - 1) :
                LET r == row + i
                    cell == GridAt(grid, r, col)
                IN  /\ ~(cell # NULL /\ cell # word[i + 1])
                    /\ cell = NULL =>
                         /\ ~(col - 1 >= 0 /\ GridAt(grid, r, col - 1) # NULL)
                         /\ ~(col + 1 < size /\ GridAt(grid, r, col + 1) # NULL)

\* the cell the i-th letter (0-based) of a word at (row, col, dir) goes to
CellOf(row, col, dir, i) ==
  IF dir = DIRS.ACROSS THEN << row, col + i >> ELSE << row + i, col >>

\* grid[r][c] = word[i] for every letter; a write past a row's end lengthens it
writeLetters(word, row, col, dir, grid) ==
  LET len == Len(word)
      Offset(r, c) == IF dir = DIRS.ACROSS THEN c - col ELSE r - row
      Written(r, c) ==
        /\ IF dir = DIRS.ACROSS THEN r = row ELSE c = col
        /\ Offset(r, c) >= 0
        /\ Offset(r, c) < len
      Reach(r) ==
        IF dir = DIRS.ACROSS
        THEN (IF r = row THEN col + len ELSE 0)
        ELSE (IF r >= row /\ r < row + len THEN col + 1 ELSE 0)
      Width(r) == IF Reach(r) > Len(grid[r + 1]) THEN Reach(r) ELSE Len(grid[r + 1])
  IN  [r1 \in 1..Len(grid) |->
        [c1 \in 1..Width(r1 - 1) |->
           IF Written(r1 - 1, c1 - 1) THEN word[Offset(r1 - 1, c1 - 1) + 1]
           ELSE IF c1 <= Len(grid[r1]) THEN grid[r1][c1]
           ELSE NULL]]

\* mutant of placeWord: the column offset is applied whatever the direction
placeWordAlwaysAcross(word, row, col, dir, grid) ==
  writeLetters(word, row, col, DIRS.ACROSS, grid)

placeWord(word, row, col, dir, grid) == writeLetters(word, row, col, dir, grid)

\* all positions of a letter in the grid, row-major
findLetterPositions(letter, grid, size) ==
  LET all == [k \in 1..(size * size) |-> << (k - 1) \div size, (k - 1) % size >>]
      Hit(p) == GridAt(grid, p[1], p[2]) = letter
  IN  SelectSeq(all, Hit)

\* Array.from(new Set(word.split(""))): the distinct letters, first occurrences
crossLettersOf(word) ==
  LET all == [k \in 1..Len(word) |-> k]
      First(k) == \A j \in 1..(k - 1) : word[j] # word[k]
      firsts == SelectSeq(all, First)
  IN  [n \in 1..Len(firsts) |-> word[firsts[n]]]

\* the 0-based indices of the word at which letter L occurs, ascending
idxsOf(word, L) ==
  LET all == [k \in 1..Len(word) |-> k - 1]
      Is(i) == word[i + 1] = L
  IN  SelectSeq(all, Is)

NotPlaced == [placed |-> FALSE]

Min(S) == CHOOSE m \in S : \A x \in S : m <= x

Max(S) == CHOOSE m \in S : \A x \in S : m >= x

\* mutant of attempt: the loop over the positions is the outer one
attemptByPosition(idxs, positions, q) ==
  LET i == idxs[((q \div 2) % Len(idxs)) + 1]
      rc == positions[(q \div (2 * Len(idxs))) + 1]
  IN  IF q % 2 = 0
      THEN [placed |-> TRUE, row |-> rc[1], col |-> rc[2] - i, dir |-> DIRS.ACROSS]
      ELSE [placed |-> TRUE, row |-> rc[1] - i, col |-> rc[2], dir |-> DIRS.DOWN]

\* the q-th attempt (from 0) of the loops over idxs and positions, across
\* tried before down at each position
attempt(idxs, positions, q) ==
  LET i == idxs[(q \div (2 * Len(positions))) + 1]
      rc == positions[((q \div 2) % Len(positions)) + 1]
  IN  IF q % 2 = 0
      THEN [placed |-> TRUE, row |-> rc[1], col |-> rc[2] - i, dir |-> DIRS.ACROSS]
      ELSE [placed |-> TRUE, row |-> rc[1] - i, col |-> rc[2], dir |-> DIRS.DOWN]

\* the attempts canPlace accepts
fitting(word, idxs, positions, grid) ==
  {q \in 0..((Len(idxs) * Len(positions) * 2) - 1) :
     canPlace(word, attempt(idxs, positions, q).row, attempt(idxs, positions, q).col,
              attempt(idxs, positions, q).dir, grid)}

firstOf(idxs, positions, fits) ==
  IF fits = {} THEN NotPlaced ELSE attempt(idxs, positions, Min(fits))

\* the first attempt canPlace accepts, if any
firstFit(word, idxs, positions, grid) ==
  IF Len(idxs) = 0 \/ Len(positions) = 0 THEN NotPlaced
  ELSE firstOf(idxs, positions, fitting(word, idxs, positions, grid))

\* the generator's calls made for the m-th letter: none when it is not on the grid
callsFor(word, letters, m, grid, size) ==
  IF Len(findLetterPositions(letters[m], grid, size)) = 0 THEN 0
  ELSE shuffleCalls(Len(idxsOf(word, letters[m])))

\* the generator's calls made for the letters before the n-th
callsBefore(word, letters, n, grid, size) ==
  Cardinality(UNION {{m} \X (1..callsFor(word, letters, m, grid, size)) : m \in 1..(n - 1)})

\* the n-th letter: its idxs shuffled, then the attempts
hitAt(word, letters, n, t, grid, size) ==
  IF Len(findLetterPositions(letters[n], grid, size)) = 0 THEN NotPlaced
  ELSE firstFit(word,
                shuffleInPlace(idxsOf(word, letters[n]),
                               AdvanceBy(t, callsBefore(word, letters, n, grid, size))).arr,
                findLetterPositions(letters[n], grid, size), grid)

\* the letters up to the first that gives a placement
lettersTried(word, letters, t, grid, size, placedAt) ==
  IF placedAt = {}
  THEN [hit |-> NotPlaced,
        t |-> AdvanceBy(t, callsBefore(word, letters, Len(letters) + 1, grid, size))]
  ELSE [hit |-> hitAt(word, letters, Min(placedAt), t, grid, size),
        t |-> AdvanceBy(t, callsBefore(word, letters, Min(placedAt) + 1, grid, size))]

tryLetters(word, shuffled, grid, size) ==
  IF Len(shuffled.arr) = 0 THEN [hit |-> NotPlaced, t |-> shuffled.t]
  ELSE lettersTried(word, shuffled.arr, shuffled.t, grid, size,
               {n \in 1..Len(shuffled.arr) :
                  hitAt(word, shuffled.arr, n, shuffled.t, grid, size).placed})

\* one iteration of the loop over the remaining words: the letters in
\* turn, idxs shuffled for each letter that is on the grid, until a
\* placement is found; yields it, if any, and the generator's state after
\* the shuffles made on the way
searchPlacement(word, t, grid, size) ==
  tryLetters(word, shuffleInPlace(crossLettersOf(word), t), grid, size)

Placement(w, row, col, dir) ==
  [answer |-> w.answer, clue |-> w.clue, row |-> row, col |-> col, dir |-> dir,
   number |-> NoNumber]

\* mutant of pushPlacement: the push of the down branch is missing
pushPlacementAcrossOnly(placements, w, hit) ==
  IF hit.dir = DIRS.ACROSS
  THEN Append(placements, Placement(w, hit.row, hit.col, hit.dir))
  ELSE placements

\* placements.push({ ...w, row, col, dir }) after a successful canPlace
pushPlacement(placements, w, hit) ==
  Append(placements, Placement(w, hit.row, hit.col, hit.dir))

\* the first word: across, near the centre
firstStartCol(size, len) ==
  LET mid == size \div 2
      want == mid - (len \div 2)
      lim == IF size - len < want THEN size - len ELSE want
  IN  IF lim < 0 THEN 0 ELSE lim

\* ------------------------------------------------- scorer and pruner
Covers(p, r, c) ==
  \E i \in 0..(Len(p.answer) - 1) : CellOf(p.row, p.col, p.dir, i) = << r, c >>

\* counts[r][c] after the counting loop. W is grid[0].length: a count kept
\* beyond column W - 1 is not a number and compares false with > 1 (0 here).
countsAt(grid, placements, r, c) ==
  IF c < Len(grid[1])
  THEN Cardinality({k \in 1..Len(placements) : Covers(placements[k], r, c)})
  ELSE 0

scorePlacements(grid, placements) ==
  Cardinality({rc \in (0..(Len(grid) - 1)) \X (0..(Len(grid[1]) - 1)) :
                 countsAt(grid, placements, rc[1], rc[2]) > 1})

\* mutant of hasCrossedCell: the loop over the cells stops after the first
hasCrossedFirstCell(p, grid, placements) ==
  countsAt(grid, placements, p.row, p.col) > 1

\* the filter's test: the placement has at least one crossed cell
hasCrossedCell(p, grid, placements) ==
  \E i \in 0..(Len(p.answer) - 1) :
     LET rc == CellOf(p.row, p.col, p.dir, i)
     IN  countsAt(grid, placements, rc[1], rc[2]) > 1

\* the cleared grid with the kept placements written in their order: a
\* cell holds the letter of the last kept placement that covers it
RebuildFrom(cleared, keep) ==
  [r1 \in 1..Len(cleared) |->
     [c1 \in 1..Len(cleared[r1]) |->
        LET over == {k \in 1..Len(keep) : Covers(keep[k], r1 - 1, c1 - 1)}
            p == keep[Max(over)]
            i == IF p.dir = DIRS.ACROSS THEN c1 - 1 - p.col ELSE r1 - 1 - p.row
        IN  IF over = {} THEN cleared[r1][c1] ELSE p.answer[i + 1]]]

\* mutant of pruneIsolatedWords: the list is filtered, the grid not rebuilt
pruneWithoutRebuild(grid, placements) ==
  IF Len(placements) <= 1 THEN [grid |-> grid, placements |-> placements]
  ELSE LET Crossed(p) == hasCrossedCell(p, grid, placements)
       IN  [grid |-> grid, placements |-> SelectSeq(placements, Crossed)]

\* yields the grid and the placement list as the call leaves them
pruneIsolatedWords(grid, placements) ==
  IF Len(placements) <= 1 THEN [grid |-> grid, placements |-> placements]
  ELSE LET W == Len(grid[1])
           Crossed(p) == hasCrossedCell(p, grid, placements)
           keep == SelectSeq(placements, Crossed)
           cleared == [r \in 1..Len(grid) |->
                         [c \in 1..Len(grid[r]) |->
                            IF c <= W THEN NULL ELSE grid[r][c]]]
       IN  IF Len(keep) = Len(placements)
           THEN [grid |-> grid, placements |-> placements]
           ELSE [grid |-> RebuildFrom(cleared, keep), placements |-> keep]

\* ------------------------------------------------------ clue numbering
isLetter(grid, size, r, c) ==
  r >= 0 /\ r < size /\ c >= 0 /\ c < size /\ GridAt(grid, r, c) # NULL

startsAcross(grid, size, r, c) ==
  ~isLetter(grid, size, r, c - 1) /\ isLetter(grid, size, r, c) /\ isLetter(grid, size, r, c + 1)

\* mutant of startsDown: the test of the cell above is missing
startsDownNoTop(grid, size, r, c) ==
  isLetter(grid, size, r, c) /\ isLetter(grid, size, r + 1, c)

startsDown(grid, size, r, c) ==
  ~isLetter(grid, size, r - 1, c) /\ isLetter(grid, size, r, c) /\ isLetter(grid, size, r + 1, c)

\* the cells the scan (r outer, c inner) gives a number to, in scan order
numberedCells(grid, size) ==
  LET all == [k \in 1..(size * size) |-> << (k - 1) \div size, (k - 1) % size >>]
      Starts(rc) ==
        /\ isLetter(grid, size, rc[1], rc[2])
        /\ (startsAcross(grid, size, rc[1], rc[2]) \/ startsDown(grid, size, rc[1], rc[2]))
  IN  SelectSeq(all, Starts)

\* numbers[r][c] = num++ at each of them: the k-th cell of the scan gets k
computeNumbers(grid, size) ==
  LET cells == numberedCells(grid, size)
  IN  [r \in 1..size |->
         [c \in 1..size |->
            IF \E k \in 1..Len(cells) : cells[k] = << r - 1, c - 1 >>
            THEN CHOOSE k \in 1..Len(cells) : cells[k] = << r - 1, c - 1 >>
            ELSE NoNumber]]

startNumberForPlacement(p, numbers) == numbers[p.row + 1][p.col + 1]

attachNumbers(placements, numbers) ==
  [k \in 1..Len(placements) |->
     [placements[k] EXCEPT !.number = startNumberForPlacement(placements[k], numbers)]]

\* --------------------------------------------------------- bounding box
computeBounds(grid, size) ==
  LET letters == {rc \in (0..(size - 1)) \X (0..(size - 1)) :
                    GridAt(grid, rc[1], rc[2]) # NULL}
  IN  IF letters = {}
      THEN [minR |-> 0, maxR |-> size - 1, minC |-> 0, maxC |-> size - 1]
      ELSE [minR |-> Min({rc[1] : rc \in letters}), maxR |-> Max({rc[1] : rc \in letters}),
            minC |-> Min({rc[2] : rc \in letters}), maxC |-> Max({rc[2] : rc \in letters})]

\* -------------------------------------------------------- word selector
Abs(n) == IF n < 0 THEN 0 - n ELSE n

sortKey(item) == Abs(Len(item.answer) - 7)

\* Array.prototype.sort is stable: entries of equal key keep their order
sortPool(pool) ==
  LET n == Len(pool)
      Before(j, i) ==
        \/ sortKey(pool[j]) < sortKey(pool[i])
        \/ (sortKey(pool[j]) = sortKey(pool[i]) /\ j < i)
      rank(i) == 1 + Cardinality({j \in 1..n : Before(j, i)})
  IN  [k \in 1..n |-> pool[CHOOSE i \in 1..n : rank(i) = k]]

\* mutant of lengthOutOfRange: both limits are excluded
lengthOutOfRangeStrict(item) == Len(item.answer) <= 3 \/ Len(item.answer) >= 13

\* the length filter
lengthOutOfRange(item) == Len(item.answer) < 3 \/ Len(item.answer) > 13

\* the seen set when the loop reaches pool[k]
seenBefore(pool, k) ==
  {pool[j].answer : j \in {x \in 1..(k - 1) : ~lengthOutOfRange(pool[x])}}

\* the loop over the shuffled pool: length filter, then the seen set
ChooseFrom(pool) ==
  IF Len(pool) = 0 THEN << >> ELSE
  LET all == [k \in 1..Len(pool) |-> k]
      Pushed(k) == ~lengthOutOfRange(pool[k]) /\ pool[k].answer \notin seenBefore(pool, k)
      pushed == SelectSeq(all, Pushed)
  IN  [n \in 1..Len(pushed) |-> pool[pushed[n]]]

\* the pool as shuffled, and the generator's state afterwards
shuffledPool(bank, t) == shuffleInPlace(sortPool(bank), t)

pickDailyWords(bank, t) == ChooseFrom(shuffledPool(bank, t).arr)

\* --------------------------------------------------------------- isSolved
\* (user[r]?.[c] || "")
userCell(user, r, c) ==
  IF r < Len(user) /\ c < Len(user[r + 1]) /\ user[r + 1][c + 1] # NULL
  THEN user[r + 1][c + 1]
  ELSE ""

\* mutant of skipsCell: empty solution cells are compared too
skipsNoCell(s) == FALSE

\* if (s == null) continue
skipsCell(s) == s = NULL

isSolved(user, sol) ==
  \A r \in 0..(Len(sol) - 1) : \A c \in 0..(Len(sol[r + 1]) - 1) :
     LET s == sol[r + 1][c + 1]
     IN  skipsCell(s) \/ userCell(user, r, c) = s

cloneGrid(g) == [r \in 1..Len(g) |-> [c \in 1..Len(g[r]) |-> IF g[r][c] # NULL THEN "" ELSE NULL]]

\* ------------------------------------------------------------ constants
MIN_WORDS == 8

MAX_SALTS == 80

\* ---------------------------------------------------------------- inputs
\* a small bank with a too-short, a too-long and a repeated answer
TestBank ==
  << [answer |-> << "C", "A", "T" >>, clue |-> "feline"],
     [answer |-> << "A", "B" >>, clue |-> "too short"],
     [answer |-> << "O", "A", "T" >>, clue |-> "cereal grain"],
     [answer |-> << "S", "C", "A", "T" >>, clue |-> "go away"],
     [answer |-> << "C", "A", "T" >>, clue |-> "whip"],
     [answer |-> << "A", "B", "C", "D", "E", "F", "G", "H", "I", "J", "K", "L", "M", "N" >>, clue |-> "too long"],
     [answer |-> << "T", "A", "C", "O" >>, clue |-> "folded tortilla"] >>

\* the word banks and grid sizes the pipeline is run on
Scenarios ==
  { [bank |-> BANK_LIMITED, size |-> 13],
    [bank |-> TestBank, size |-> 5],
    [bank |-> << >>, size |-> 13] }

\* base seeds are 0..MaxSeed
MaxSeed == 4

\* ------------------------------------------------------------------ state
VARIABLES
  pc,          \* where the pipeline stands
  bank,        \* the word bank
  seed,        \* the base seed (dateToSeed's value)
  size,        \* the grid size
  words,       \* the selector's candidate list
  salt,        \* the orchestrator's loop variable
  best,        \* the orchestrator's best trial so far: << >> (null) or << it >>
  result,      \* what the orchestrator returned: << >> (not yet) or << it >>
  genSeed,     \* the seed the running trial was called with
  t,           \* the running trial's generator state
  copy,        \* the running trial's words still to try
  grid,        \* the running trial's grid
  placements,  \* the running trial's placement list
  numbers,     \* the running trial's numbering matrix
  bounds,      \* the running trial's bounding box
  trials,      \* the trials finished so far, in order
  userGrid,    \* the player's grid
  complete,    \* the last value of isSolved(userGrid, grid)
  selfTest,    \* runSelfTests: the results g, g2 it has got so far
  call         \* a function called on its own: its arguments, and what canPlace returned

vars ==
  << pc, bank, seed, size, words, salt, best, result, genSeed, t, copy, grid, placements,
     numbers, bounds, trials, userGrid, complete, selfTest, call >>

inputVars == << bank, seed, size >>

trialVars == << genSeed, t, copy, grid, placements, numbers, bounds >>

\* no function called on its own
NoCall == [fn |-> "none"]

\* everything but the inputs, before the pipeline starts
Blank ==
  /\ pc = "pick"
  /\ words = << >>
  /\ salt = 0
  /\ best = << >>
  /\ result = << >>
  /\ genSeed = 0
  /\ t = << 0, 0 >>
  /\ copy = << >>
  /\ grid = << >>
  /\ placements = << >>
  /\ numbers = << >>
  /\ bounds = [minR |-> 0, maxR |-> 0, minC |-> 0, maxC |-> 0]
  /\ trials = << >>
  /\ userGrid = << >>
  /\ complete = FALSE
  /\ selfTest = << >>
  /\ call = NoCall

Init ==
  /\ \E sc \in Scenarios : bank = sc.bank /\ size = sc.size
  /\ seed \in 0..MaxSeed
  /\ Blank

\* App: rng = mulberry32(seed); words = pickDailyWords(rng)
PickDailyWords ==
  /\ pc = "pick"
  /\ words' = pickDailyWords(bank, mulberry32(seed))
  /\ pc' = "loop"
  /\ UNCHANGED << inputVars, salt, best, result, trialVars, trials, userGrid, complete, selfTest, call >>

\* mutant of wordsAfterCall: the caller's list is shuffled in place
wordsShuffledInPlace(given, shuffled) == shuffled

\* the word list a call of generateCrosswordFromWords leaves to its caller:
\* the shuffle works on a copy
wordsAfterCall(given, shuffled) == given

\* mutant of fullExtent: the last row and column are taken one too far
fullExtentPastEdge(S) == [minR |-> 0, maxR |-> S, minC |-> 0, maxC |-> S]

\* the bounds returned with an empty word list: the whole grid
fullExtent(S) == [minR |-> 0, maxR |-> S - 1, minC |-> 0, maxC |-> S - 1]

\* generateCrosswordFromWords(words, trialSeed, size), up to the first word
GenStart(trialSeed) ==
  LET sh == shuffleInPlace(words, mulberry32(trialSeed))
      empty == makeEmptyGrid(size)
      first == Head(sh.arr)
      mid == size \div 2
      startCol == firstStartCol(size, Len(first.answer))
  IN  /\ words' = wordsAfterCall(words, sh.arr)
      /\ genSeed' = trialSeed
      /\ t' = sh.t
      /\ numbers' = << >>
      /\ IF Len(sh.arr) = 0
         THEN /\ grid' = empty
              /\ placements' = << >>
              /\ bounds' = fullExtent(size)
              /\ copy' = << >>
              /\ pc' = "score"
         ELSE /\ grid' = placeWord(first.answer, mid, startCol, DIRS.ACROSS, empty)
              /\ placements' = << Placement(first, mid, startCol, DIRS.ACROSS) >>
              /\ bounds' = bounds
              /\ copy' = Tail(sh.arr)
              /\ pc' = "place"

\* the orchestrator's loop: the trial of the next salt
BeginTrial ==
  /\ pc = "loop"
  /\ salt < MAX_SALTS
  /\ GenStart(seed + salt)
  /\ UNCHANGED << inputVars, salt, best, result, trials, userGrid, complete, selfTest, call >>

\* one iteration of "for (const w of copy)"
PlaceNextWord ==
  /\ pc = "place"
  /\ copy # << >>
  /\ LET w == Head(copy)
         found == searchPlacement(w.answer, t, grid, size)
         hit == found.hit
     IN  /\ t' = found.t
         /\ IF hit.placed
            THEN /\ grid' = placeWord(w.answer, hit.row, hit.col, hit.dir, grid)
                 /\ placements' = pushPlacement(placements, w, hit)
            ELSE UNCHANGED << grid, placements >>
  /\ copy' = Tail(copy)
  /\ UNCHANGED << pc, inputVars, words, salt, best, result, genSeed, numbers, bounds, trials,
                  userGrid, complete, selfTest, call >>

\* pruneIsolatedWords(grid, placements), once the loop over the words is over
Prune ==
  /\ pc = "place"
  /\ copy = << >>
  /\ LET pruned == pruneIsolatedWords(grid, placements)
     IN  grid' = pruned.grid /\ placements' = pruned.placements
  /\ pc' = "number"
  /\ UNCHANGED << inputVars, words, salt, best, result, genSeed, t, copy, numbers, bounds, trials,
                  userGrid, complete, selfTest, call >>

\* the numbering matrix, and the numbers attached to the placements
Number ==
  /\ pc = "number"
  /\ numbers' = computeNumbers(grid, size)
  /\ placements' = attachNumbers(placements, numbers')
  /\ pc' = "bounds"
  /\ UNCHANGED << inputVars, words, salt, best, result, genSeed, t, copy, grid, bounds, trials,
                  userGrid, complete, selfTest, call >>

\* the bounding box; the trial returns
Bounds ==
  /\ pc = "bounds"
  /\ bounds' = computeBounds(grid, size)
  /\ pc' = "score"
  /\ UNCHANGED << inputVars, words, salt, best, result, genSeed, t, copy, grid, placements, numbers,
                  trials, userGrid, complete, selfTest, call >>

\* the value generateCrosswordFromWords returns
TrialResult ==
  [grid |-> grid, placements |-> placements, numbers |-> numbers, bounds |-> bounds]

qualityOf(placedCount, crosses) == placedCount * 10 + crosses

\* mutant of replacesBest: a trial of equal score replaces best too
replacesBestOnTie(b, score) == b = << >> \/ score >= b[1].score

\* whether a trial of this score replaces best
replacesBest(b, score) == b = << >> \/ score > b[1].score

\* mutant of meetsThreshold: the count has to exceed MIN_WORDS
meetsThresholdStrictly(placedCount) == placedCount > MIN_WORDS

\* whether the loop returns the trial at once
meetsThreshold(placedCount) == placedCount >= MIN_WORDS

\* the body of the orchestrator's loop after the trial returned
ScoreTrial ==
  /\ pc = "score"
  /\ LET g == TrialResult
         placedCount == Len(g.placements)
         crosses == scorePlacements(g.grid, g.placements)
         score == qualityOf(placedCount, crosses)
     IN  /\ best' = IF replacesBest(best, score)
                    THEN << [g |-> g, score |-> score, salt |-> salt] >>
                    ELSE best
         /\ trials' = Append(trials, [salt |-> salt, trialSeed |-> genSeed,
                                      g |-> g, score |-> score])
         /\ IF meetsThreshold(placedCount)
            THEN result' = << g >> /\ pc' = "returned" /\ salt' = salt
            ELSE result' = result /\ pc' = "loop" /\ salt' = salt + 1
  /\ UNCHANGED << inputVars, words, trialVars, userGrid, complete, selfTest, call >>

\* the loop ran out: return best (never null here, as MAX_SALTS >= 1)
Fallback ==
  /\ pc = "loop"
  /\ salt >= MAX_SALTS
  /\ best # << >>
  /\ result' = << best[1].g >>
  /\ pc' = "returned"
  /\ UNCHANGED << inputVars, words, salt, best, trialVars, trials, userGrid, complete, selfTest, call >>

\* useState(() => cloneGrid(grid))
CloneGrid ==
  /\ pc = "returned"
  /\ userGrid' = cloneGrid(result[1].grid)
  /\ pc' = "play"
  /\ UNCHANGED << inputVars, words, salt, best, result, trialVars, trials, complete, selfTest, call >>

\* setComplete(isSolved(userGrid, grid))
CheckComplete ==
  /\ pc = "play"
  /\ complete' = isSolved(userGrid, result[1].grid)
  /\ pc' = "idle"
  /\ UNCHANGED << inputVars, words, salt, best, result, trialVars, trials, userGrid, selfTest, call >>

Next ==
  \/ PickDailyWords
  \/ BeginTrial
  \/ PlaceNextWord
  \/ Prune
  \/ Number
  \/ Bounds
  \/ ScoreTrial
  \/ Fallback
  \/ CloneGrid
  \/ CheckComplete

Spec == Init /\ [][Next]_vars

\* ------------------------------------------------------------ runSelfTests
testSeed == 424242

\* runSelfTests on a bank: seeded by testSeed
InitSelfTest ==
  /\ \E sc \in Scenarios : bank = sc.bank /\ size = sc.size
  /\ seed \in {testSeed} \cup (0..MaxSeed)
  /\ Blank

\* g = generateCrosswordFromWords(words, testSeed, 13) and, after the checks
\* on g, g2 = generateCrosswordFromWords(words, testSeed, 13)
SelfTestGenerate ==
  /\ pc = "loop"
  /\ Len(selfTest) < 2
  /\ GenStart(seed)
  /\ UNCHANGED << inputVars, salt, best, result, trials, userGrid, complete, selfTest, call >>

\* a call returned: g, then g2
SelfTestReturn ==
  /\ pc = "score"
  /\ selfTest' = Append(selfTest, TrialResult)
  /\ pc' = "loop"
  /\ UNCHANGED << inputVars, words, salt, best, result, trialVars, trials, userGrid, complete, call >>

NextSelfTest ==
  \/ PickDailyWords
  \/ SelfTestGenerate
  \/ PlaceNextWord
  \/ Prune
  \/ Number
  \/ Bounds
  \/ SelfTestReturn

SpecSelfTest == InitSelfTest /\ [][NextSelfTest]_vars

\* ------------------------------------------- words with repeated letters
\* answers in which a letter occurs more than once
RepeatBank ==
  << [answer |-> << "N", "O", "O", "N" >>, clue |-> "midday"],
     [answer |-> << "O", "N", "I", "O", "N" >>, clue |-> "layered bulb"],
     [answer |-> << "N", "O", "N", "O" >>, clue |-> "forbidden thing"],
     [answer |-> << "I", "N", "N" >>, clue |-> "small hotel"] >>

SearchSizes == {7, 13}

\* the generator called on the words selected from RepeatBank
InitSearch ==
  /\ bank = RepeatBank
  /\ size \in SearchSizes
  /\ seed \in {testSeed} \cup (0..MaxSeed)
  /\ Blank

SpecSearch == InitSearch /\ [][NextSelfTest]_vars

\* ------------------------------------------------------- other grid sizes
\* the grid sizes the generator is called with, from the length of the
\* shortest answer on
GridSizes == {3, 4, 5}

\* the generator called on the words selected from TestBank, for each size
InitSizes ==
  /\ bank = TestBank
  /\ size \in GridSizes
  /\ seed \in {testSeed} \cup (0..MaxSeed)
  /\ Blank

SpecSizes == InitSizes /\ [][NextSelfTest]_vars

\* ------------------------------------------------- isSolved on small grids
\* the widest grid isSolved is tried on
MaxCols == 2

SolvedRows == {1, 2}

SolutionCells == {NULL, "A"}

PlayerCells == {NULL, "", "A", "B"}

\* a solution grid and a player grid, the player grid possibly a row short
InitSolved ==
  /\ \E h \in SolvedRows, w \in 1..MaxCols :
        /\ grid \in [1..h -> [1..w -> SolutionCells]]
        /\ \E uh \in SolvedRows : uh <= h /\ userGrid \in [1..uh -> [1..w -> PlayerCells]]
  /\ pc = "play"
  /\ result = << [grid |-> grid, placements |-> << >>, numbers |-> << >>,
                  bounds |-> [minR |-> 0, maxR |-> 0, minC |-> 0, maxC |-> 0]] >>
  /\ bank = << >>
  /\ size = 0
  /\ seed = 0
  /\ words = << >>
  /\ salt = 0
  /\ best = << >>
  /\ genSeed = 0
  /\ t = << 0, 0 >>
  /\ copy = << >>
  /\ placements = << >>
  /\ numbers = << >>
  /\ bounds = [minR |-> 0, maxR |-> 0, minC |-> 0, maxC |-> 0]
  /\ trials = << >>
  /\ complete = FALSE
  /\ selfTest = << >>
  /\ call = NoCall

NextSolved == CheckComplete

SpecSolved == InitSolved /\ [][NextSolved]_vars

\* ------------------------------------------------- canPlace on small grids
\* the most letters a small grid canPlace is tried on holds
MaxLetters == 2

TrySide == 3

TryCells == {NULL, "A", "B"}

\* the S x S grids with at most n letters
gridsWith(S, n) ==
  {g \in [1..S -> [1..S -> TryCells]] :
     Cardinality({rc \in (1..S) \X (1..S) : g[rc[1]][rc[2]] # NULL}) <= n}

\* a 5 x 5 grid with CAT across at row 2, columns 1 to 3
ExampleGrid == placeWord(<< "C", "A", "T" >>, 2, 1, DIRS.ACROSS, makeEmptyGrid(5))

\* the grids and, on each, the words canPlace is called with
canPlaceInputs ==
  {[grid |-> g, word |-> w] :
     g \in gridsWith(TrySide, MaxLetters),
     w \in {<< "A" >>, << "A", "B" >>, << "B", "A", "B" >>, << "A", "B", "A", "B" >>}}
    \cup
  {[grid |-> ExampleGrid, word |-> w] :
     w \in {<< "B", "A", "T" >>, << "O", "A", "T" >>, << "C", "A", "T" >>, << "S", "C", "A", "T" >>}}

\* a call canPlace(word, row, col, dir, grid), starts on and off the grid
InitCanPlace ==
  /\ \E inp \in canPlaceInputs :
        /\ grid = inp.grid
        /\ \E row \in (0 - 1)..Len(inp.grid), col \in (0 - 1)..Len(inp.grid),
               dir \in {DIRS.ACROSS, DIRS.DOWN} :
              call = [fn |-> "canPlace", word |-> inp.word, row |-> row, col |-> col,
                      dir |-> dir, ret |-> FALSE]
  /\ pc = "try"
  /\ size = Len(grid)
  /\ bank = << >>
  /\ seed = 0
  /\ words = << >>
  /\ salt = 0
  /\ best = << >>
  /\ result = << >>
  /\ genSeed = 0
  /\ t = << 0, 0 >>
  /\ copy = << >>
  /\ placements = << >>
  /\ numbers = << >>
  /\ bounds = [minR |-> 0, maxR |-> 0, minC |-> 0, maxC |-> 0]
  /\ trials = << >>
  /\ userGrid = << >>
  /\ complete = FALSE
  /\ selfTest = << >>

\* the call returns
CallCanPlace ==
  /\ pc = "try"
  /\ call' = [call EXCEPT !.ret = canPlace(call.word, call.row, call.col, call.dir, grid)]
  /\ pc' = "tried"
  /\ UNCHANGED << inputVars, words, salt, best, result, trialVars, trials, userGrid, complete,
                  selfTest >>

NextCanPlace == CallCanPlace

SpecCanPlace == InitCanPlace /\ [][NextCanPlace]_vars

\* --------------------------------------- pruneIsolatedWords on small grids
\* the longest placement list the pruner is tried on
MaxPlaced == 3

PruneSide == 3

PruneWords == {<< "A", "B" >>}

\* the placements of a word of PruneWords that lie inside the grid
prunePlacements ==
  {Placement([answer |-> w, clue |-> ""], at[1], at[2], dir) :
     w \in PruneWords, at \in (0..(PruneSide - 1)) \X (0..(PruneSide - 1)),
     dir \in {DIRS.ACROSS, DIRS.DOWN}}

insideGrid(p, S) ==
  \A i \in 0..(Len(p.answer) - 1) :
     CellOf(p.row, p.col, p.dir, i)[1] < S /\ CellOf(p.row, p.col, p.dir, i)[2] < S

\* the placements written on an empty grid in their order
writtenGrid(list, S) == RebuildFrom(makeEmptyGrid(S), list)

\* the same with a letter no placement covers, in the first empty cell
strayGrid(list, S) ==
  LET g == writtenGrid(list, S)
      free == {k \in 1..(S * S) : g[((k - 1) \div S) + 1][((k - 1) % S) + 1] = NULL}
  IN  IF free = {} THEN g
      ELSE [g EXCEPT ![((Min(free) - 1) \div S) + 1][((Min(free) - 1) % S) + 1] = "A"]

\* a call pruneIsolatedWords(grid, placements)
InitPrune ==
  /\ \E n \in 0..MaxPlaced :
        placements \in [1..n -> {p \in prunePlacements : insideGrid(p, PruneSide)}]
  /\ grid \in {writtenGrid(placements, PruneSide), strayGrid(placements, PruneSide)}
  /\ call = [fn |-> "pruneIsolatedWords", grid |-> grid, placements |-> placements]
  /\ pc = "place"
  /\ copy = << >>
  /\ size = PruneSide
  /\ bank = << >>
  /\ seed = 0
  /\ words = << >>
  /\ salt = 0
  /\ best = << >>
  /\ result = << >>
  /\ genSeed = 0
  /\ t = << 0, 0 >>
  /\ numbers = << >>
  /\ bounds = [minR |-> 0, maxR |-> 0, minC |-> 0, maxC |-> 0]
  /\ trials = << >>
  /\ userGrid = << >>
  /\ complete = FALSE
  /\ selfTest = << >>

NextPrune == Prune

SpecPrune == InitPrune /\ [][NextPrune]_vars

\* ==================================================================
\* Properties
\* ==================================================================
\* the result a call of generateCrosswordFromWords has just returned,
\* and the result the orchestrator returned
ReturnedResults ==
  (IF pc = "score" THEN {TrialResult} ELSE {})
    \cup {result[k] : k \in 1..Len(result)}
    \cup {selfTest[k] : k \in 1..Len(selfTest)}

CellsOf(p) == {CellOf(p.row, p.col, p.dir, i) : i \in 0..(Len(p.answer) - 1)}

InGrid(g, rc) ==
  rc[1] >= 0 /\ rc[1] < Len(g) /\ rc[2] >= 0 /\ rc[2] < Len(g[rc[1] + 1])

MatchesGrid(p, g) ==
  \A i \in 0..(Len(p.answer) - 1) :
     LET rc == CellOf(p.row, p.col, p.dir, i)
     IN  /\ InGrid(g, rc)
         /\ g[rc[1] + 1][rc[2] + 1] # NULL
         /\ g[rc[1] + 1][rc[2] + 1] = p.answer[i + 1]

\* C1: every placement's letters are the grid's letters at the cells it
\* covers, after every placement step, after the pruner and in every
\* returned result.
C1_LetterConsistency ==
  /\ pc \in {"place", "number", "bounds", "score"} =>
       \A k \in 1..Len(placements) : MatchesGrid(placements[k], grid)
  /\ \A g \in ReturnedResults :
       \A k \in 1..Len(g.placements) : MatchesGrid(g.placements[k], g.grid)

\* a down word crossing an across word, after the pruner
C1_Witness ==
  /\ pc = "number"
  /\ \E k1, k2 \in 1..Len(placements) :
        /\ placements[k1].dir = DIRS.ACROSS
        /\ placements[k2].dir = DIRS.DOWN
        /\ CellsOf(placements[k1]) \cap CellsOf(placements[k2]) # {}

\* the cells of a grid that hold a letter
LetterCells(g) ==
  UNION {{<< r, c >> : c \in {x \in 0..(Len(g[r + 1]) - 1) : g[r + 1][x + 1] # NULL}} :
           r \in 0..(Len(g) - 1)}

\* C2: in a returned result every cell that holds a letter is covered by a
\* placement of the result.
C2_FullCoverage ==
  \A g \in ReturnedResults :
     \A rc \in LetterCells(g.grid) :
        \E k \in 1..Len(g.placements) : rc \in CellsOf(g.placements[k])

\* a returned result with across and down words
C2_Witness ==
  \E g \in ReturnedResults :
     /\ Len(g.placements) > 2
     /\ \E k \in 1..Len(g.placements) : g.placements[k].dir = DIRS.DOWN
     /\ LetterCells(g.grid) # {}

\* C3: in a returned result of more than one placement, every placement
\* shares a cell with another placement.
C3_Interlock ==
  \A g \in ReturnedResults :
     Len(g.placements) > 1 =>
       \A k \in 1..Len(g.placements) :
          \E k2 \in 1..Len(g.placements) :
             k2 # k /\ CellsOf(g.placements[k]) \cap CellsOf(g.placements[k2]) # {}

\* a returned result of several words, after the one call of the pruner
C3_Witness ==
  \E g \in ReturnedResults : Len(g.placements) >= 3

\* C4: every placement of a returned result has a clue number, the entry
\* of the numbering matrix at its start cell.
C4_EveryPlacementNumbered ==
  \A g \in ReturnedResults :
     \A k \in 1..Len(g.placements) :
        LET p == g.placements[k]
        IN  /\ p.number # NoNumber
            /\ p.number = g.numbers[p.row + 1][p.col + 1]

\* whether cell rc of the S x S grid g holds a letter
HoldsLetter(g, S, rc) ==
  /\ rc[1] >= 0 /\ rc[1] < S /\ rc[2] >= 0 /\ rc[2] < S
  /\ g[rc[1] + 1][rc[2] + 1] # NULL

\* a letter cell with nothing to its left and a letter to its right
AcrossStart(g, S, rc) ==
  /\ HoldsLetter(g, S, rc)
  /\ ~HoldsLetter(g, S, << rc[1], rc[2] - 1 >>)
  /\ HoldsLetter(g, S, << rc[1], rc[2] + 1 >>)

\* a letter cell with nothing above and a letter below
DownStart(g, S, rc) ==
  /\ HoldsLetter(g, S, rc)
  /\ ~HoldsLetter(g, S, << rc[1] - 1, rc[2] >>)
  /\ HoldsLetter(g, S, << rc[1] + 1, rc[2] >>)

StartCells(g, S) ==
  {rc \in (0..(S - 1)) \X (0..(S - 1)) : AcrossStart(g, S, rc) \/ DownStart(g, S, rc)}

RowMajorBefore(a, b) == a[1] < b[1] \/ (a[1] = b[1] /\ a[2] < b[2])

\* C5: in the result of a non-empty trial a cell is numbered exactly when
\* it starts an across or a down run; the numbers are 1..k, increasing in
\* row-major order, one number per start cell.
C5_NumberingMatrix ==
  \A g \in ReturnedResults :
     Len(g.numbers) > 0 =>
       LET S == Len(g.grid)
           starts == StartCells(g.grid, S)
           num(rc) == g.numbers[rc[1] + 1][rc[2] + 1]
       IN  /\ Len(g.numbers) = S
           /\ \A rc \in (0..(S - 1)) \X (0..(S - 1)) :
                 (num(rc) # NoNumber) <=> (rc \in starts)
           /\ {num(rc) : rc \in starts} = 1..Cardinality(starts)
           /\ \A a, b \in starts : RowMajorBefore(a, b) => num(a) < num(b)

\* a result with a cell that starts both an across and a down run, and a
\* letter cell in the middle of a down run
C5_Witness ==
  \E g \in ReturnedResults :
     /\ Len(g.numbers) > 0
     /\ \E rc \in StartCells(g.grid, Len(g.grid)) :
           AcrossStart(g.grid, Len(g.grid), rc) /\ DownStart(g.grid, Len(g.grid), rc)
     /\ Cardinality(StartCells(g.grid, Len(g.grid))) >= 4

\* the salt of the first finished trial that placed MIN_WORDS words, if any
ReachedThreshold(k) == Len(trials[k].g.placements) >= MIN_WORDS

\* C6: trials run in the order of the salts 0, 1, ... with the seed
\* seed + salt; once a trial places MIN_WORDS words the orchestrator has
\* returned that trial's result, it is the last trial run, and no trial
\* runs after it.
C6_EarlyExit ==
  /\ \A k \in 1..Len(trials) :
        trials[k].salt = k - 1 /\ trials[k].trialSeed = seed + (k - 1)
  /\ Len(trials) <= MAX_SALTS
  /\ \A k \in 1..Len(trials) :
        ReachedThreshold(k) =>
          /\ k = Len(trials)
          /\ result = << trials[k].g >>
          /\ pc \in {"returned", "play", "idle"}
  /\ pc \in {"returned", "play", "idle"} => ~ENABLED BeginTrial

\* the orchestrator returned at a salt above 0, trials below it having failed
C6_Witness ==
  /\ pc = "returned"
  /\ Len(trials) > 2
  /\ ReachedThreshold(Len(trials))
  /\ \E k \in 1..(Len(trials) - 1) : Len(trials[k].g.placements) = MIN_WORDS - 1

\* the cells of a result that more than one of its placements covers
SharedCells(g) ==
  {rc \in UNION {CellsOf(g.placements[k]) : k \in 1..Len(g.placements)} :
     Cardinality({k \in 1..Len(g.placements) : rc \in CellsOf(g.placements[k])}) > 1}

Quality(g) == Len(g.placements) * 10 + Cardinality(SharedCells(g))

\* C7: when no trial places MIN_WORDS words, MAX_SALTS trials are run and
\* the result returned is that of the trial of the smallest salt among
\* those of maximal quality.
C7_Fallback ==
  (pc \in {"returned", "play", "idle"} /\ \A k \in 1..Len(trials) : ~ReachedThreshold(k)) =>
    /\ Len(trials) = MAX_SALTS
    /\ \E k \in 1..Len(trials) :
          /\ result = << trials[k].g >>
          /\ \A j \in 1..Len(trials) : Quality(trials[j].g) <= Quality(trials[k].g)
          /\ \A j \in 1..(k - 1) : Quality(trials[j].g) < Quality(trials[k].g)

\* the best trial is neither the first nor the only one of its quality
C7_Witness ==
  /\ pc = "returned"
  /\ Len(trials) = MAX_SALTS
  /\ \A k \in 1..Len(trials) : ~ReachedThreshold(k)
  /\ best[1].salt > 0
  /\ \E j \in 1..Len(trials) : j - 1 > best[1].salt /\ trials[j].score = best[1].score

AllLettersEntered(user, sol) ==
  \A r \in 1..Len(sol) : \A c \in 1..Len(sol[r]) :
     sol[r][c] # NULL =>
       r <= Len(user) /\ c <= Len(user[r]) /\ user[r][c] = sol[r][c]

\* C9: isSolved is true exactly when the player's grid holds every letter
\* of the solution at its place, whatever it holds where the solution is
\* empty; so a player grid equal to the solution is solved and a blank one
\* is not when the solution has a letter. Neither grid is changed.
C9_IsSolved ==
  /\ [](pc = "idle" =>
          /\ complete <=> AllLettersEntered(userGrid, result[1].grid)
          /\ userGrid = result[1].grid => complete
          /\ (userGrid = cloneGrid(result[1].grid) /\ LetterCells(result[1].grid) # {})
               => ~complete)
  /\ [][pc = "play" => userGrid' = userGrid /\ result' = result]_vars

\* solved although the player's grid differs from the solution where the
\* solution is empty
C9_Witness ==
  /\ pc = "idle"
  /\ complete
  /\ LetterCells(result[1].grid) # {}
  /\ \E r \in 1..Len(userGrid) : \E c \in 1..Len(userGrid[r]) :
        result[1].grid[r][c] = NULL /\ userGrid[r][c] = "B"

Range(seq) == {seq[k] : k \in 1..Len(seq)}

\* how often entry e occurs in a sequence
Occurrences(seq, e) == Cardinality({k \in 1..Len(seq) : seq[k] = e})

InRange(item) == Len(item.answer) >= 3 /\ Len(item.answer) <= 13

\* the k-th smallest member of a set of numbers
KthOf(S, k) == CHOOSE i \in S : Cardinality({j \in S : j < i}) = k - 1

\* C10: the selector's list holds only in-range entries of the bank, no
\* answer twice, every in-range answer of the bank once, and is the
\* shuffled pool cut down to the first in-range entry of each answer, in
\* the pool's order; an empty bank gives an empty list.
C10_SelectorOutput ==
  (pc = "loop" /\ salt = 0) =>
    LET pool == shuffledPool(bank, mulberry32(seed)).arr
        firsts == {i \in 1..Len(pool) :
                     /\ InRange(pool[i])
                     /\ \A j \in 1..(i - 1) : pool[j].answer # pool[i].answer}
    IN  /\ Len(pool) = Len(bank)
        /\ \A e \in Range(bank) : Occurrences(pool, e) = Occurrences(bank, e)
        /\ \A k \in 1..Len(words) : words[k] \in Range(bank) /\ InRange(words[k])
        /\ \A k1, k2 \in 1..Len(words) : k1 # k2 => words[k1].answer # words[k2].answer
        /\ {w.answer : w \in Range(words)} = {e.answer : e \in {x \in Range(bank) : InRange(x)}}
        /\ Len(words) = Cardinality(firsts)
        /\ \A k \in 1..Len(words) : words[k] = pool[KthOf(firsts, k)]
        /\ bank = << >> => words = << >>

\* a bank with a too-short, a too-long and a repeated answer, selected from
C10_Witness ==
  /\ pc = "loop"
  /\ salt = 0
  /\ Len(words) > 0
  /\ \E e \in Range(bank) : ~InRange(e)
  /\ \E k1, k2 \in 1..Len(bank) : k1 # k2 /\ bank[k1].answer = bank[k2].answer
  /\ Len(bank) - Len(words) = 3

\* C11: with an empty candidate list every call of the generator returns
\* an all-empty grid, no placements and bounds spanning the whole grid, and
\* the orchestrator, after its MAX_SALTS trials, has a best trial to return
\* and returns such a result.
C11_EmptyInput ==
  (pc # "pick" /\ words = << >>) =>
    /\ \A g \in ReturnedResults :
          /\ g.grid = makeEmptyGrid(size)
          /\ g.placements = << >>
          /\ g.bounds = [minR |-> 0, maxR |-> size - 1, minC |-> 0, maxC |-> size - 1]
    /\ (pc = "loop" /\ salt >= MAX_SALTS) => ENABLED Fallback
    /\ pc \in {"returned", "play", "idle"} =>
          /\ Len(result) = 1
          /\ Len(trials) = MAX_SALTS
          /\ result[1] = trials[1].g

\* the orchestrator returned on an empty candidate list
C11_Witness ==
  /\ pc = "returned"
  /\ words = << >>
  /\ size > 0
  /\ Len(trials) = MAX_SALTS
  /\ result[1].placements = << >>

\* whether cell (r, c) of grid g is off the grid or empty
EmptyOrOff(g, r, c) ==
  r < 0 \/ r >= Len(g) \/ c < 0 \/ c >= Len(g) \/ g[r + 1][c + 1] = NULL

\* the three conditions of a valid placement, stated on the grid: dr, dc is
\* the step along the word, dc, dr the step across it
ValidPlacement(word, row, col, dir, g) ==
  LET dr == IF dir = DIRS.DOWN THEN 1 ELSE 0
      dc == 1 - dr
      len == Len(word)
  IN  /\ \A i \in 0..(len - 1) :
           /\ row + (i * dr) >= 0 /\ row + (i * dr) < Len(g)
           /\ col + (i * dc) >= 0 /\ col + (i * dc) < Len(g)
      /\ EmptyOrOff(g, row - dr, col - dc)
      /\ EmptyOrOff(g, row + (len * dr), col + (len * dc))
      /\ \A i \in 0..(len - 1) :
           LET r == row + (i * dr)
               c == col + (i * dc)
           IN  \/ g[r + 1][c + 1] = word[i + 1]
               \/ /\ g[r + 1][c + 1] = NULL
                  /\ EmptyOrOff(g, r - dc, c - dr)
                  /\ EmptyOrOff(g, r + dc, c + dr)

\* C12: canPlace returns true exactly when the word lies inside the grid,
\* the cells before its start and after its end are empty or off the grid,
\* and every covered cell holds the word's letter or is empty with both
\* side neighbours empty or off the grid; with CAT across at row 2 column 1
\* of a 5 x 5 grid, BAT across at row 2 column 0 is rejected and OAT down
\* at row 1 column 2 is accepted; the call leaves the grid as it was.
C12_CanPlace ==
  /\ [](pc = "tried" =>
          /\ call.ret <=> ValidPlacement(call.word, call.row, call.col, call.dir, grid)
          /\ (grid = ExampleGrid /\ call.word = << "B", "A", "T" >> /\ call.row = 2
                /\ call.col = 0 /\ call.dir = DIRS.ACROSS) => ~call.ret
          /\ (grid = ExampleGrid /\ call.word = << "O", "A", "T" >> /\ call.row = 1
                /\ call.col = 2 /\ call.dir = DIRS.DOWN) => call.ret)
  /\ [][pc = "try" => grid' = grid]_vars

\* a word accepted that crosses a letter on the grid and has a cell after
\* its end on the grid
C12_Witness ==
  /\ pc = "tried"
  /\ call.ret
  /\ Len(call.word) = 2
  /\ call.dir = DIRS.DOWN
  /\ call.row + 2 < Len(grid)
  /\ \E i \in 0..1 : grid[call.row + i + 1][call.col + 1] # NULL
  /\ \E rc \in (1..Len(grid)) \X (1..Len(grid)) :
        grid[rc[1]][rc[2]] # NULL /\ rc[2] # call.col + 1

\* C13: no returned result has two placements in the same direction with
\* the cells of one a proper subset of the cells of the other.
C13_NoStrictExtension ==
  \A g \in ReturnedResults :
     \A k1, k2 \in 1..Len(g.placements) :
        (k1 # k2 /\ g.placements[k1].dir = g.placements[k2].dir) =>
          ~(/\ CellsOf(g.placements[k1]) \subseteq CellsOf(g.placements[k2])
            /\ CellsOf(g.placements[k1]) # CellsOf(g.placements[k2]))

\* the cells of grid g that hold letter L
CellsHolding(g, S, L) ==
  {rc \in (0..(S - 1)) \X (0..(S - 1)) : g[rc[1] + 1][rc[2] + 1] = L}

\* the k-th of a set of cells in row-major order
KthCell(cells, k) ==
  CHOOSE a \in cells : Cardinality({b \in cells : RowMajorBefore(b, a)}) = k - 1

\* the indices of the n-th letter in the word, as the search shuffles them
\* once the letters before it gave nothing
idxOrders(word, letters, t1, g, S) ==
  [n \in 1..Len(letters) |->
     shuffleInPlace(idxsOf(word, letters[n]),
                    AdvanceBy(t1, callsBefore(word, letters, n, g, S))).arr]

\* the tries of a search: << n, k, j, d >> is the n-th letter, its k-th
\* occurrence on the grid, the j-th of its shuffled indices, d = 0 across
\* and d = 1 down
triesOf(letters, orders, g, S) ==
  UNION {{<< n, k, j, d >> : k \in 1..Cardinality(CellsHolding(g, S, letters[n])),
                             j \in 1..Len(orders[n]), d \in {0, 1}} :
           n \in 1..Len(letters)}

\* where a try starts the word
startOf(try, letters, orders, g, S) ==
  LET rc == KthCell(CellsHolding(g, S, letters[try[1]]), try[2])
      i == orders[try[1]][try[3]]
  IN  IF try[4] = 0
      THEN [row |-> rc[1], col |-> rc[2] - i, dir |-> DIRS.ACROSS]
      ELSE [row |-> rc[1] - i, col |-> rc[2], dir |-> DIRS.DOWN]

validTries(word, letters, orders, g, S) ==
  {try \in triesOf(letters, orders, g, S) :
     canPlace(word, startOf(try, letters, orders, g, S).row,
              startOf(try, letters, orders, g, S).col,
              startOf(try, letters, orders, g, S).dir, g)}

LexBefore(a, b) ==
  \E m \in 1..Len(a) : a[m] < b[m] /\ \A x \in 1..(m - 1) : a[x] = b[x]

\* letter, then occurrence, then index, then direction
OccurrenceFirst(try) == << try[1], try[2], try[3], try[4] >>

\* letter, then index, then occurrence, then direction
IndexFirst(try) == << try[1], try[3], try[2], try[4] >>

\* what a step of the search must do when the valid tries are these and
\* the first of them is this one
StepTakes(valid, first, w, letters, orders) ==
  IF valid = {}
  THEN grid' = grid /\ placements' = placements
  ELSE LET at == startOf(first, letters, orders, grid, size)
       IN  /\ grid' = placeWord(w.answer, at.row, at.col, at.dir, grid)
           /\ placements' = Append(placements, Placement(w, at.row, at.col, at.dir))

FirstOccurrenceFirst(valid) ==
  CHOOSE a \in valid :
     \A b \in valid \ {a} : LexBefore(OccurrenceFirst(a), OccurrenceFirst(b))

FirstIndexFirst(valid) ==
  CHOOSE a \in valid : \A b \in valid \ {a} : LexBefore(IndexFirst(a), IndexFirst(b))

SearchByOccurrence(w, letters, orders) ==
  StepTakes(validTries(w.answer, letters, orders, grid, size),
            FirstOccurrenceFirst(validTries(w.answer, letters, orders, grid, size)),
            w, letters, orders)

SearchByIndex(w, letters, orders) ==
  StepTakes(validTries(w.answer, letters, orders, grid, size),
            FirstIndexFirst(validTries(w.answer, letters, orders, grid, size)),
            w, letters, orders)

\* C14 as claimed: the placement a word gets is the first valid one in the
\* order shuffled letters, then the letter's occurrences on the grid in
\* row-major order, then the letter's shuffled indices in the word, then
\* across before down; a word with no valid placement changes nothing.
C14_SearchOrderClaimed ==
  [][(pc = "place" /\ copy # << >>) =>
       SearchByOccurrence(Head(copy),
         shuffleInPlace(crossLettersOf(Head(copy).answer), t).arr,
         idxOrders(Head(copy).answer, shuffleInPlace(crossLettersOf(Head(copy).answer), t).arr,
                   shuffleInPlace(crossLettersOf(Head(copy).answer), t).t, grid, size))]_vars

\* C14 amended: the placement a word gets is the first valid one in the
\* order shuffled letters, then the letter's shuffled indices in the word,
\* then for each index the letter's occurrences on the grid in row-major
\* order, then across before down; the word gets one placement at most,
\* and a word with no valid placement changes neither grid nor list.
C14_SearchOrder ==
  [][(pc = "place" /\ copy # << >>) =>
       SearchByIndex(Head(copy),
         shuffleInPlace(crossLettersOf(Head(copy).answer), t).arr,
         idxOrders(Head(copy).answer, shuffleInPlace(crossLettersOf(Head(copy).answer), t).arr,
                   shuffleInPlace(crossLettersOf(Head(copy).answer), t).t, grid, size))]_vars

\* a word about to be searched, after others were placed, for which the
\* first valid try of the two orders is not the same
C14_Witness ==
  /\ pc = "place"
  /\ copy # << >>
  /\ Len(placements) >= 2
  /\ LET word == Head(copy).answer
         sh == shuffleInPlace(crossLettersOf(word), t)
         valid == validTries(word, sh.arr, idxOrders(word, sh.arr, sh.t, grid, size), grid, size)
     IN  /\ valid # {}
         /\ FirstIndexFirst(valid) # FirstOccurrenceFirst(valid)

\* how many placements of a list cover a cell
CoverCount(list, rc) == Cardinality({k \in 1..Len(list) : rc \in CellsOf(list[k])})

\* a placement with a cell that more than one placement of the list covers
SharesACell(p, list) == \E rc \in CellsOf(p) : CoverCount(list, rc) > 1

\* the letters the placements of a list put on cell rc
LettersAt(list, rc) ==
  UNION {{list[k].answer[i + 1] :
            i \in {x \in 0..(Len(list[k].answer) - 1) :
                     CellOf(list[k].row, list[k].col, list[k].dir, x) = rc}} :
           k \in 1..Len(list)}

\* the grid holds the letters of the list's placements and nothing else
HoldsExactly(g, list) ==
  \A r \in 1..Len(g) : \A c \in 1..Len(g[r]) :
     IF LettersAt(list, << r - 1, c - 1 >>) = {}
     THEN g[r][c] = NULL
     ELSE g[r][c] \in LettersAt(list, << r - 1, c - 1 >>)

Survivors(list) == SelectSeq(list, LAMBDA p : SharesACell(p, list))

\* C15: called on a list of more than one placement with an isolated one
\* among them, the pruner leaves the placements that share a cell with
\* another placement of the list it was given, in their order, and a grid
\* of the same shape that holds the letters of those placements and is
\* empty elsewhere; called on a list of at most one placement, or on one
\* without an isolated placement, it leaves grid and list as they were.
C15_PrunerPostcondition ==
  (pc = "number" /\ call.fn = "pruneIsolatedWords") =>
    IF Len(call.placements) <= 1 \/ Survivors(call.placements) = call.placements
    THEN grid = call.grid /\ placements = call.placements
    ELSE /\ placements = Survivors(call.placements)
         /\ Len(grid) = Len(call.grid)
         /\ \A r \in 1..Len(grid) : Len(grid[r]) = Len(call.grid[r])
         /\ HoldsExactly(grid, placements)

\* a list with a crossing pair and an isolated word, on a grid that held a
\* letter outside every placement: the isolated word and the letter are gone
C15_Witness ==
  /\ pc = "number"
  /\ call.fn = "pruneIsolatedWords"
  /\ Len(call.placements) = 3
  /\ Len(placements) = 2
  /\ placements[1].dir # placements[2].dir
  /\ \E r \in 1..Len(grid) : \E c \in 1..Len(grid[r]) :
        /\ call.grid[r][c] # NULL
        /\ LettersAt(call.placements, << r - 1, c - 1 >>) = {}
        /\ grid[r][c] = NULL

\* the length of the run of letter cells of the S x S grid g that starts
\* at rc and goes by (dr, dc)
RunLength(g, S, rc, dr, dc) ==
  Min({n \in 1..S : ~HoldsLetter(g, S, << rc[1] + (n * dr), rc[2] + (n * dc) >>)})

\* the run from rc by (dr, dc) is the span of a placement of that
\* direction whose answer spells it
RunIsPlacement(g, S, list, rc, dr, dc) ==
  \E k \in 1..Len(list) :
     /\ list[k].dir = (IF dr = 1 THEN DIRS.DOWN ELSE DIRS.ACROSS)
     /\ list[k].row = rc[1]
     /\ list[k].col = rc[2]
     /\ Len(list[k].answer) = RunLength(g, S, rc, dr, dc)
     /\ \A i \in 0..(Len(list[k].answer) - 1) :
           g[rc[1] + (i * dr) + 1][rc[2] + (i * dc) + 1] = list[k].answer[i + 1]

NoPhantomRuns(g, list) ==
  \A rc \in (0..(Len(g) - 1)) \X (0..(Len(g) - 1)) :
     /\ AcrossStart(g, Len(g), rc) => RunIsPlacement(g, Len(g), list, rc, 0, 1)
     /\ DownStart(g, Len(g), rc) => RunIsPlacement(g, Len(g), list, rc, 1, 0)

\* C16: after every placement step and in every returned result, each
\* maximal across run and each maximal down run of two or more letter
\* cells is the span of a placement of that direction whose answer
\* spells the run.
C16_NoPhantomWords ==
  /\ pc \in {"place", "number", "bounds", "score"} => NoPhantomRuns(grid, placements)
  /\ \A g \in ReturnedResults : Len(g.grid) > 0 => NoPhantomRuns(g.grid, g.placements)

\* a returned result with two across runs in neighbouring but one rows or
\* two down runs in neighbouring but one columns
C16_Witness ==
  \E g \in ReturnedResults :
     /\ Len(g.placements) >= 4
     /\ \E a, b \in StartCells(g.grid, Len(g.grid)) :
           \/ /\ AcrossStart(g.grid, Len(g.grid), a) /\ AcrossStart(g.grid, Len(g.grid), b)
              /\ b[1] = a[1] + 2
           \/ /\ DownStart(g.grid, Len(g.grid), a) /\ DownStart(g.grid, Len(g.grid), b)
              /\ b[2] = a[2] + 2

\* a placement with every cell inside the S x S grid
InsideSquare(p, S) ==
  /\ p.row >= 0
  /\ p.col >= 0
  /\ IF p.dir = DIRS.ACROSS
     THEN p.col + Len(p.answer) <= S /\ p.row < S
     ELSE p.row + Len(p.answer) <= S /\ p.col < S

\* C17: for every grid size S, every placement of a returned result
\* lies inside the grid, which is an S x S matrix; the first word of a
\* trial is across at row floor(S/2), at the column floor(S/2) -
\* floor(len/2) brought into 0..S - len.
C17_InsideGrid ==
  /\ \A g \in ReturnedResults :
        /\ Len(g.grid) = size
        /\ \A r \in 1..Len(g.grid) : Len(g.grid[r]) = size
        /\ \A k \in 1..Len(g.placements) : InsideSquare(g.placements[k], size)
  /\ (pc = "place" /\ Len(placements) > 0) =>
        /\ placements[1].dir = DIRS.ACROSS
        /\ placements[1].row = size \div 2
        /\ placements[1].col =
              Max({0, Min({size - Len(placements[1].answer),
                           (size \div 2) - (Len(placements[1].answer) \div 2)})})

====
